---- MODULE Spec2Model ----
(***************************************************************************)
(* Smart Recitation Tracker: the Arabic normalizer, the word/character     *)
(* aligner built on difflib.SequenceMatcher, and the Analyze handler of    *)
(* the Streamlit page (src/app.py).                                        *)
(*                                                                         *)
(* A Python str is modelled as a sequence of Unicode code points, so the   *)
(* character classes of the regular expressions are sets of numbers.       *)
(* Python indices are kept 0-based: element i of a Python sequence s is    *)
(* s[i+1] here, and a slice s[lo:hi] is Slice(s, lo, hi).                  *)
(***************************************************************************)
EXTENDS Integers, Sequences, FiniteSets, TLC

VARIABLES
    pc,                             \* position of the running operation
    text,                           \* normalize_arabic: the current text
    text_hist,                      \* normalize_arabic: the texts it was given so far
    normalize_ta,                   \* checkbox "normalize ta marbuta" / parameter
    use_normalized_for_comparison,  \* checkbox "compare on normalized text"
    original_text,                  \* the text area with the reference verse
    recognized,                     \* the transcript of the recitation
    comp_orig,                      \* the reference string that is compared
    comp_rec,                       \* the candidate string that is compared
    percent,                        \* similarity, in hundredths of a percent
    diffs,                          \* result of get_diff_words
    orig_html,                      \* highlighted reference
    rec_html,                       \* highlighted candidate
    uploaded_file,                  \* suffix of the uploaded file, or "none"
    files,                          \* temporary files that exist on disk
    wav_path,                       \* local wav_path of the handler, "unset" before line 378
    shown,                          \* st.error / st.warning messages shown so far
    raised,                         \* the exception that left the handler, or "none"
    transcripts,                    \* streaming server: the dict of final transcripts by session
    conns,                          \* streaming server: the websocket_endpoint call of each connection
    writes,                         \* streaming server: every assignment to transcripts so far, in order
    response                        \* streaming server: the last response of GET /transcript

vars == <<pc, text, text_hist, normalize_ta, use_normalized_for_comparison,
          original_text, recognized, comp_orig, comp_rec, percent, diffs,
          orig_html, rec_html, uploaded_file, files, wav_path, shown, raised,
          transcripts, conns, writes, response>>

normVars == <<text, text_hist>>
cmpVars == <<original_text, recognized, use_normalized_for_comparison,
             comp_orig, comp_rec, percent, diffs, orig_html, rec_html>>
ioVars == <<uploaded_file, files, wav_path, shown, raised>>
streamVars == <<transcripts, conns, writes, response>>

-----------------------------------------------------------------------------
(* Bounds of the model. *)

MaxNormLen == 3     \* longest text given to normalize_arabic
MaxDiffLen == 6     \* longest string given to get_diff_words / highlight_differences
MaxTextLen == 3     \* longest reference / candidate text of a comparison
MaxAnalyzeLen == 2  \* longest verse / transcript of an Analyze request

-----------------------------------------------------------------------------
(* Characters. *)

FATHA == 1614           \* U+064E, a short-vowel mark
SHADDA == 1617          \* U+0651
TATWEEL == 1600         \* U+0640
ALEF_HAMZA_BELOW == 1573 \* U+0625
ALEF == 1575            \* U+0627
ALEF_MAKSURA == 1609    \* U+0649
YEH == 1610             \* U+064A
WAW_HAMZA == 1572       \* U+0624
WAW == 1608             \* U+0648
YEH_HAMZA == 1574       \* U+0626
TEH_MARBUTA == 1577     \* U+0629
HEH == 1607             \* U+0647
BEH == 1576             \* U+0628, a letter no rule touches
ARABIC_COMMA == 1548    \* U+060C, punctuation inside the Arabic block
SPACE == 32
NEWLINE == 10
BANG == 33              \* '!', punctuation outside the Arabic block

\* r"[ًٌٍَُِّْـ]": shadda, fatha, fathatan, damma, dammatan, kasra, kasratan,
\* sukun and tatweel
Tashkeel == {1617, 1614, 1611, 1615, 1612, 1616, 1613, 1618, 1600}

\* r"[إأآا]"
AlefVariants == {1573, 1571, 1570, 1575}

\* the hamza / madda forms of alef
HamzaAlefs == {1573, 1571, 1570}

\* \s of a Python str pattern (and str.isspace)
Whitespace == {9, 10, 11, 12, 13, 28, 29, 30, 31, 32, 133, 160, 5760}
                \cup (8192..8202) \cup {8232, 8233, 8239, 8287, 12288}

\* ؀-ۿ
ArabicBlock == 1536..1791

\* \w of a Python str pattern, for the ASCII range (inside the Arabic block
\* the class r"[^\w\s؀-ۿ]" keeps every character anyway)
AsciiWord == (48..57) \cup (65..90) \cup {95} \cup (97..122)

-----------------------------------------------------------------------------
(* Strings. *)

\* s[lo:hi] for 0 <= lo and 0 <= hi; a slice stops at the end of s
Slice(s, lo, hi) ==
    LET h == IF hi < Len(s) THEN hi ELSE Len(s)
    IN  IF h <= lo THEN <<>> ELSE SubSeq(s, lo + 1, h)

\* all sequences over alphabet of length at most n
RECURSIVE SeqsUpTo(_, _)
SeqsUpTo(alphabet, n) ==
    IF n = 0 THEN {<<>>}
    ELSE LET shorter == SeqsUpTo(alphabet, n - 1)
         IN  shorter \cup {Append(s, c) : s \in {t \in shorter : Len(t) = n - 1}, c \in alphabet}

\* re.sub(r"[set]", "", text)
ReDelete(chars, s) == SelectSeq(s, LAMBDA c : c \notin chars)

\* re.sub(r"[set]", repl, text), repl a single character
ReReplace(chars, repl, s) == [i \in 1..Len(s) |-> IF s[i] \in chars THEN repl ELSE s[i]]

\* re.sub(r"\s+", " ", text): every maximal run of whitespace becomes one space
RECURSIVE CollapseSpaces(_)
CollapseSpaces(s) ==
    IF s = <<>> THEN <<>>
    ELSE IF Head(s) \in Whitespace
         THEN IF Len(s) > 1 /\ s[2] \in Whitespace
              THEN CollapseSpaces(Tail(s))
              ELSE <<SPACE>> \o CollapseSpaces(Tail(s))
         ELSE <<Head(s)>> \o CollapseSpaces(Tail(s))

RECURSIVE LStrip(_)
LStrip(s) == IF s # <<>> /\ Head(s) \in Whitespace THEN LStrip(Tail(s)) ELSE s

RECURSIVE RStrip(_)
RStrip(s) ==
    IF s # <<>> /\ s[Len(s)] \in Whitespace THEN RStrip(SubSeq(s, 1, Len(s) - 1)) ELSE s

\* str.strip()
Strip(s) == RStrip(LStrip(s))

\* str.split(): the maximal runs of non-whitespace, in order.  The words of
\* the two halves of s, the last word of the first half and the first word of
\* the second being one word when no whitespace separates them.
RECURSIVE Split(_)
Split(s) ==
    IF s = <<>> THEN <<>>
    ELSE IF Len(s) = 1 THEN (IF s[1] \in Whitespace THEN <<>> ELSE <<s>>)
    ELSE LET m == Len(s) \div 2
             left == Split(SubSeq(s, 1, m))
             right == Split(SubSeq(s, m + 1, Len(s)))
         IN  IF s[m] \notin Whitespace /\ s[m + 1] \notin Whitespace
             THEN SubSeq(left, 1, Len(left) - 1)
                  \o <<left[Len(left)] \o right[1]>>
                  \o Tail(right)
             ELSE left \o right

\* sep.join(parts), the parts taken half by half
RECURSIVE Join(_, _)
Join(sep, parts) ==
    IF parts = <<>> THEN <<>>
    ELSE IF Len(parts) = 1 THEN parts[1]
         ELSE LET m == Len(parts) \div 2
              IN  Join(sep, SubSeq(parts, 1, m)) \o sep
                  \o Join(sep, SubSeq(parts, m + 1, Len(parts)))

-----------------------------------------------------------------------------
(* normalize_arabic, src/app.py:114-135 *)

\* the tatweel left out of the character class
RemoveTashkeelKeepTatweel(s) == ReDelete(Tashkeel \ {TATWEEL}, s)

RemoveTashkeel(s) == ReDelete(Tashkeel, s)

NormalizeAlef(s) == ReReplace(AlefVariants, ALEF, s)

\* re.sub(..., count=1): only the first ta-marbuta is mapped
NormalizeTaFirstOnly(s) ==
    [i \in 1..Len(s) |->
        IF s[i] = TEH_MARBUTA /\ \A k \in 1..(i - 1) : s[k] # TEH_MARBUTA THEN HEH ELSE s[i]]

NormalizeTa(s) == ReReplace({TEH_MARBUTA}, HEH, s)

\* r"[^\w\s؀-ۿ]"
IsPunctuation(c) == c \notin AsciiWord /\ c \notin Whitespace /\ c \notin ArabicBlock

RemovePunctuation(s) == [i \in 1..Len(s) |-> IF IsPunctuation(s[i]) THEN SPACE ELSE s[i]]

CollapseAndStrip(s) == Strip(CollapseSpaces(s))

NormalizeAlefMaksura(s) == ReReplace({ALEF_MAKSURA}, YEH, s)

NormalizeWawHamza(s) == ReReplace({WAW_HAMZA}, WAW, s)

\* yeh-with-hamza mapped to the look-alike alef-maksura instead of yeh
NormalizeYehHamzaToMaksura(s) == ReReplace({YEH_HAMZA}, ALEF_MAKSURA, s)

NormalizeYehHamza(s) == ReReplace({YEH_HAMZA}, YEH, s)

normalize_arabic(s, ta) ==
    LET t1 == RemoveTashkeel(s)
        t2 == NormalizeAlef(t1)
        t3 == NormalizeAlefMaksura(t2)
        t4 == NormalizeWawHamza(t3)
        t5 == NormalizeYehHamza(t4)
        t6 == IF ta THEN NormalizeTa(t5) ELSE t5
        t7 == RemovePunctuation(t6)
    IN  CollapseAndStrip(t7)

-----------------------------------------------------------------------------
(* difflib.SequenceMatcher(None, a, b), as used at src/app.py:147, 184 and  *)
(* 407: isjunk is None and autojunk has its default, True.  a and b are     *)
(* sequences of hashable items: characters for the ratio, words for the    *)
(* opcodes.                                                                *)

Min(x, y) == IF x < y THEN x ELSE y

\* __chain_b: with autojunk, when b has 200 items or more, the items that
\* occur more than len(b) // 100 + 1 times are "popular" and get no entry in
\* b2j; they are not junk, so matches are still extended over them.
bpopular(b) ==
    IF Len(b) >= 200
    THEN {x \in {b[n] : n \in 1..Len(b)} :
            Cardinality({n \in 1..Len(b) : b[n] = x}) > (Len(b) \div 100) + 1}
    ELSE {}

\* j2len[j] while the outer loop is at i: the length of the run of matches on
\* non-popular items that ends at a[i], b[j] and stays inside a[alo:], b[blo:]
RECURSIVE j2len(_, _, _, _, _, _)
j2len(a, b, alo, blo, i, j) ==
    IF i < alo \/ j < blo THEN 0
    ELSE IF a[i + 1] # b[j + 1] \/ b[j + 1] \in bpopular(b) THEN 0
         ELSE 1 + j2len(a, b, alo, blo, i - 1, j - 1)

\* "if k > bestsize": among equally long blocks the first one scanned wins
IsLonger(k, bestsize) == k > bestsize

\* the body of the two nested loops of find_longest_match at a[i], b[j]; best
\* is (besti, bestj, bestsize)
ScanStep(a, b, alo, blo, i, j, best) ==
    LET k == j2len(a, b, alo, blo, i, j)
    IN  IF IsLonger(k, best[3]) THEN <<i - k + 1, j - k + 1, k>> ELSE best

\* the two nested loops of find_longest_match: i over range(alo, ahi), j over
\* the indices of a[i] in b, increasing.  The passes are numbered in the
\* order the loops make them, pass n being at i = alo + n // (bhi - blo),
\* j = blo + n % (bhi - blo); LongestScan makes the passes lo .. hi - 1 in
\* that order, the first half and then the second.
RECURSIVE LongestScan(_, _, _, _, _, _, _, _, _)
LongestScan(a, b, alo, ahi, blo, bhi, lo, hi, best) ==
    IF hi <= lo THEN best
    ELSE IF hi = lo + 1
         THEN ScanStep(a, b, alo, blo, alo + (lo \div (bhi - blo)), blo + (lo % (bhi - blo)), best)
         ELSE LET mid == (lo + hi) \div 2
                  \* best as the first half leaves it, a value before the second
                  \* half starts
                  halfway == {LongestScan(a, b, alo, ahi, blo, bhi, lo, mid, best)}
              IN  CHOOSE scanned \in {LongestScan(a, b, alo, ahi, blo, bhi, mid, hi, h) :
                                          h \in halfway} : TRUE

\* "while besti > alo and bestj > blo and not isbjunk(b[bestj-1]) and
\*  a[besti-1] == b[bestj-1]": no item is junk
RECURSIVE ExtendBackward(_, _, _, _, _)
ExtendBackward(a, b, alo, blo, best) ==
    IF best[1] > alo /\ best[2] > blo /\ a[best[1]] = b[best[2]]
    THEN ExtendBackward(a, b, alo, blo, <<best[1] - 1, best[2] - 1, best[3] + 1>>)
    ELSE best

\* "while besti+bestsize < ahi and bestj+bestsize < bhi and ... and
\*  a[besti+bestsize] == b[bestj+bestsize]"
RECURSIVE ExtendForward(_, _, _, _, _)
ExtendForward(a, b, ahi, bhi, best) ==
    IF /\ best[1] + best[3] < ahi
       /\ best[2] + best[3] < bhi
       /\ a[best[1] + best[3] + 1] = b[best[2] + best[3] + 1]
    THEN ExtendForward(a, b, ahi, bhi, <<best[1], best[2], best[3] + 1>>)
    ELSE best

\* Match(besti, bestj, bestsize); the two loops that extend over junk never
\* run, the junk set being empty
find_longest_match(a, b, alo, ahi, blo, bhi) ==
    LET passes == IF ahi > alo /\ bhi > blo THEN (ahi - alo) * (bhi - blo) ELSE 0
        scanned == LongestScan(a, b, alo, ahi, blo, bhi, 0, passes, <<alo, blo, 0>>)
    IN  ExtendForward(a, b, ahi, bhi, ExtendBackward(a, b, alo, blo, scanned))

\* the work queue of get_matching_blocks followed by matching_blocks.sort():
\* the blocks left of a match, the match, the blocks right of it
RECURSIVE BlocksIn(_, _, _, _, _, _)
BlocksIn(a, b, alo, ahi, blo, bhi) ==
    LET x == find_longest_match(a, b, alo, ahi, blo, bhi)
        i == x[1]
        j == x[2]
        k == x[3]
    IN  IF k = 0 THEN <<>>
        ELSE (IF alo < i /\ blo < j THEN BlocksIn(a, b, alo, i, blo, j) ELSE <<>>)
             \o <<x>>
             \o (IF i + k < ahi /\ j + k < bhi THEN BlocksIn(a, b, i + k, ahi, j + k, bhi)
                 ELSE <<>>)

\* the loop that collapses adjacent blocks; cur is (i1, j1, k1)
RECURSIVE NonAdjacent(_, _)
NonAdjacent(blocks, cur) ==
    IF blocks = <<>> THEN (IF cur[3] # 0 THEN <<cur>> ELSE <<>>)
    ELSE LET x == Head(blocks)
         IN  IF cur[1] + cur[3] = x[1] /\ cur[2] + cur[3] = x[2]
             THEN NonAdjacent(Tail(blocks), <<cur[1], cur[2], cur[3] + x[3]>>)
             ELSE (IF cur[3] # 0 THEN <<cur>> ELSE <<>>) \o NonAdjacent(Tail(blocks), x)

\* the closing block (la, lb, 0) not appended
get_matching_blocksNoSentinel(a, b) ==
    NonAdjacent(BlocksIn(a, b, 0, Len(a), 0, Len(b)), <<0, 0, 0>>)

get_matching_blocks(a, b) ==
    Append(NonAdjacent(BlocksIn(a, b, 0, Len(a), 0, Len(b)), <<0, 0, 0>>),
           <<Len(a), Len(b), 0>>)

Opcode(tag, i1, i2, j1, j2) == [tag |-> tag, i1 |-> i1, i2 |-> i2, j1 |-> j1, j2 |-> j2]

\* the loop of get_opcodes over the matching blocks, i and j being where the
\* previous block ended
RECURSIVE OpcodesFrom(_, _, _)
OpcodesFrom(blocks, i, j) ==
    IF blocks = <<>> THEN <<>>
    ELSE LET ai == Head(blocks)[1]
             bj == Head(blocks)[2]
             size == Head(blocks)[3]
             tag == IF i < ai /\ j < bj THEN "replace"
                    ELSE IF i < ai THEN "delete"
                    ELSE IF j < bj THEN "insert"
                    ELSE ""
         IN  (IF tag # "" THEN <<Opcode(tag, i, ai, j, bj)>> ELSE <<>>)
             \o (IF size # 0 THEN <<Opcode("equal", ai, ai + size, bj, bj + size)>> ELSE <<>>)
             \o OpcodesFrom(Tail(blocks), ai + size, bj + size)

get_opcodes(a, b) == OpcodesFrom(get_matching_blocks(a, b), 0, 0)

RECURSIVE SumSizes(_)
SumSizes(blocks) == IF blocks = <<>> THEN 0 ELSE Head(blocks)[3] + SumSizes(Tail(blocks))

\* matches = sum(triple[-1] for triple in self.get_matching_blocks())
Matches(a, b) == SumSizes(get_matching_blocks(a, b))

\* round(num / den, 0) for num >= 0, den > 0: to the nearest integer, a tie to
\* the even one
RoundHalfEven(num, den) ==
    LET q == num \div den
        r == num % den
    IN  IF 2 * r < den THEN q
        ELSE IF 2 * r > den THEN q + 1
        ELSE IF q % 2 = 0 THEN q ELSE q + 1

\* the length of the reference alone taken as the total length
PercentOverReference(a, b) ==
    IF Len(a) + Len(b) = 0 THEN 10000
    ELSE IF Len(a) = 0 THEN 0
    ELSE RoundHalfEven(10000 * 2 * Matches(a, b), Len(a))

\* "return 1.0" of _calculate_ratio dropped: the ratio of two empty sequences
\* taken as 0
PercentEmptyIsZero(a, b) ==
    IF Len(a) + Len(b) = 0 THEN 0
    ELSE RoundHalfEven(10000 * 2 * Matches(a, b), Len(a) + Len(b))

\* "return 1.0" of _calculate_ratio taken whenever one of the two sequences
\* is empty
PercentAnyEmptyIsFull(a, b) ==
    IF Len(a) = 0 \/ Len(b) = 0 THEN 10000
    ELSE RoundHalfEven(10000 * 2 * Matches(a, b), Len(a) + Len(b))

\* round(SequenceMatcher(None, a, b).ratio() * 100, 2), in hundredths of a
\* percent; _calculate_ratio is 2.0 * matches / length, and 1.0 when length is 0
Percent(a, b) ==
    IF Len(a) + Len(b) = 0 THEN 10000
    ELSE RoundHalfEven(10000 * 2 * Matches(a, b), Len(a) + Len(b))

-----------------------------------------------------------------------------
(* get_diff_words, src/app.py:180-196 *)

\* list(zip(x, y))
Zip(x, y) == [n \in 1..Min(Len(x), Len(y)) |-> <<x[n], y[n]>>]

\* the replace branch taken as "missing.extend(...); extra.extend(...)"
DiffStepReplaceAsMissingExtra(op, orig_words, rec_words, d) ==
    LET o == Slice(orig_words, op.i1, op.i2)
        r == Slice(rec_words, op.j1, op.j2)
    IN  IF op.tag = "replace" THEN [d EXCEPT !.missing = @ \o o, !.extra = @ \o r]
        ELSE IF op.tag = "delete" THEN [d EXCEPT !.missing = @ \o o]
        ELSE IF op.tag = "insert" THEN [d EXCEPT !.extra = @ \o r]
        ELSE d

\* the delete and the insert branch feeding each other's list
DiffStepDeleteInsertSwapped(op, orig_words, rec_words, d) ==
    LET o == Slice(orig_words, op.i1, op.i2)
        r == Slice(rec_words, op.j1, op.j2)
    IN  IF op.tag = "replace" THEN [d EXCEPT !.replaced = @ \o Zip(o, r)]
        ELSE IF op.tag = "delete" THEN [d EXCEPT !.extra = @ \o o]
        ELSE IF op.tag = "insert" THEN [d EXCEPT !.missing = @ \o r]
        ELSE d

\* zip_longest in the replace branch: the words without a partner are reported
\* as missing or extra
DiffStepSurplusReported(op, orig_words, rec_words, d) ==
    LET o == Slice(orig_words, op.i1, op.i2)
        r == Slice(rec_words, op.j1, op.j2)
        m == Min(Len(o), Len(r))
    IN  IF op.tag = "replace"
        THEN [d EXCEPT !.replaced = @ \o Zip(o, r),
                       !.missing = @ \o Slice(o, m, Len(o)),
                       !.extra = @ \o Slice(r, m, Len(r))]
        ELSE IF op.tag = "delete" THEN [d EXCEPT !.missing = @ \o o]
        ELSE IF op.tag = "insert" THEN [d EXCEPT !.extra = @ \o r]
        ELSE d

\* the body of the loop over the opcodes; d is the dict being built
DiffStep(op, orig_words, rec_words, d) ==
    LET o == Slice(orig_words, op.i1, op.i2)
        r == Slice(rec_words, op.j1, op.j2)
    IN  IF op.tag = "replace" THEN [d EXCEPT !.replaced = @ \o Zip(o, r)]
        ELSE IF op.tag = "delete" THEN [d EXCEPT !.missing = @ \o o]
        ELSE IF op.tag = "insert" THEN [d EXCEPT !.extra = @ \o r]
        ELSE d

RECURSIVE DiffLoop(_, _, _, _)
DiffLoop(ops, orig_words, rec_words, d) ==
    IF ops = <<>> THEN d
    ELSE DiffLoop(Tail(ops), orig_words, rec_words, DiffStep(Head(ops), orig_words, rec_words, d))

get_diff_words(orig, rec) ==
    LET orig_words == Split(orig)
        rec_words == Split(rec)
    IN  DiffLoop(get_opcodes(orig_words, rec_words), orig_words, rec_words,
                 [missing |-> <<>>, extra |-> <<>>, replaced |-> <<>>])

-----------------------------------------------------------------------------
(* highlight_differences, src/app.py:138-177.  The opening and the closing  *)
(* tag of the mismatch marker are one item each of the rendering.           *)

SPAN_OPEN == -1     \* "<span style='color:var(--accent-pink)'>"
SPAN_CLOSE == -2    \* "</span>"

Marked(w) == <<SPAN_OPEN>> \o w \o <<SPAN_CLOSE>>

MarkAll(ws) == [n \in 1..Len(ws) |-> Marked(ws[n])]

\* the words of a delete opcode appended as they are, without the span
HighlightStepDeletePlain(op, orig_words, rec_words, h) ==
    LET o == Slice(orig_words, op.i1, op.i2)
        r == Slice(rec_words, op.j1, op.j2)
    IN  IF op.tag = "equal" THEN <<h[1] \o o, h[2] \o r>>
        ELSE IF op.tag = "replace" THEN <<h[1] \o MarkAll(o), h[2] \o MarkAll(r)>>
        ELSE IF op.tag = "delete" THEN <<h[1] \o o, h[2]>>
        ELSE IF op.tag = "insert" THEN <<h[1], h[2] \o MarkAll(r)>>
        ELSE h

\* the body of the loop over the opcodes; h is <<orig_html_parts,
\* rec_html_parts>>
HighlightStep(op, orig_words, rec_words, h) ==
    LET o == Slice(orig_words, op.i1, op.i2)
        r == Slice(rec_words, op.j1, op.j2)
    IN  IF op.tag = "equal" THEN <<h[1] \o o, h[2] \o r>>
        ELSE IF op.tag = "replace" THEN <<h[1] \o MarkAll(o), h[2] \o MarkAll(r)>>
        ELSE IF op.tag = "delete" THEN <<h[1] \o MarkAll(o), h[2]>>
        ELSE IF op.tag = "insert" THEN <<h[1], h[2] \o MarkAll(r)>>
        ELSE h

RECURSIVE HighlightLoop(_, _, _, _)
HighlightLoop(ops, orig_words, rec_words, h) ==
    IF ops = <<>> THEN h
    ELSE HighlightLoop(Tail(ops), orig_words, rec_words,
                       HighlightStep(Head(ops), orig_words, rec_words, h))

\* the fallback of an empty rendering taken from the words of the other side
highlight_differencesFallbackSwapped(orig, rec) ==
    LET orig_words == Split(orig)
        rec_words == Split(rec)
        parts == HighlightLoop(get_opcodes(orig_words, rec_words), orig_words, rec_words,
                               <<(<<>>), (<<>>)>>)
        o_html == Join(<<SPACE>>, parts[1])
        r_html == Join(<<SPACE>>, parts[2])
    IN  <<IF o_html = <<>> THEN Join(<<SPACE>>, rec_words) ELSE o_html,
          IF r_html = <<>> THEN Join(<<SPACE>>, orig_words) ELSE r_html>>

highlight_differences(orig, rec) ==
    LET orig_words == Split(orig)
        rec_words == Split(rec)
        parts == HighlightLoop(get_opcodes(orig_words, rec_words), orig_words, rec_words,
                               <<(<<>>), (<<>>)>>)
        o_html == Join(<<SPACE>>, parts[1])
        r_html == Join(<<SPACE>>, parts[2])
    IN  <<IF o_html = <<>> THEN Join(<<SPACE>>, orig_words) ELSE o_html,
          IF r_html = <<>> THEN Join(<<SPACE>>, rec_words) ELSE r_html>>

-----------------------------------------------------------------------------
(* The comparison of the Analyze handler, src/app.py:398-420. *)

\* line 404 read as "comp_rec = recognized": the candidate is never normalized
ChooseCandidateAlwaysRaw(rec_norm, rec, use_normalized) == rec

\* comp_rec = rec_norm if use_normalized_for_comparison else recognized
ChooseCandidate(rec_norm, rec, use_normalized) == IF use_normalized THEN rec_norm ELSE rec

\* comp_orig = orig_norm if use_normalized_for_comparison else original_text
ChooseReference(orig_norm, orig, use_normalized) == IF use_normalized THEN orig_norm ELSE orig

Comparison(orig, rec, ta, use_normalized) ==
    LET orig_norm == normalize_arabic(orig, ta)
        rec_norm == normalize_arabic(rec, ta)
        c_orig == ChooseReference(orig_norm, orig, use_normalized)
        c_rec == ChooseCandidate(rec_norm, rec, use_normalized)
        html == highlight_differences(c_orig, c_rec)
    IN  [comp_orig |-> c_orig,
         comp_rec |-> c_rec,
         percent |-> Percent(c_orig, c_rec),
         orig_html |-> html[1],
         rec_html |-> html[2],
         diffs |-> get_diff_words(c_orig, c_rec)]

-----------------------------------------------------------------------------
(* Specification SpecNorm: normalize_arabic applied to a text, then to its  *)
(* own output.                                                             *)

NormAlphabet == {FATHA, SHADDA, TATWEEL, ALEF_HAMZA_BELOW, ALEF, ALEF_MAKSURA, YEH,
                 WAW_HAMZA, YEH_HAMZA, TEH_MARBUTA, HEH, BEH, ARABIC_COMMA,
                 SPACE, NEWLINE, BANG}

NoComparison ==
    /\ original_text = <<>>
    /\ recognized = <<>>
    /\ use_normalized_for_comparison = TRUE
    /\ comp_orig = <<>>
    /\ comp_rec = <<>>
    /\ percent = 0
    /\ diffs = [missing |-> <<>>, extra |-> <<>>, replaced |-> <<>>]
    /\ orig_html = <<>>
    /\ rec_html = <<>>

\* the streaming server before any request: "transcripts: Dict[str, str] = {}"
EmptyDict == [k \in {} |-> ""]

Conns == {"c1", "c2"}

\* a connection that no client has opened yet
NotConnected ==
    [pc |-> "none", session |-> "unset", model |-> "none", received |-> 0,
     sent |-> <<>>, pending |-> "", ended |-> ""]

NoResponse == [session |-> "", text |-> ""]

NoServer ==
    /\ transcripts = EmptyDict
    /\ conns = [c \in Conns |-> NotConnected]
    /\ writes = <<>>
    /\ response = NoResponse

NoRequest ==
    /\ uploaded_file = "none"
    /\ files = {}
    /\ wav_path = "unset"
    /\ shown = {}
    /\ raised = "none"

InitNorm ==
    /\ pc = "normalize"
    /\ text \in SeqsUpTo(NormAlphabet, MaxNormLen)
    /\ text_hist = <<>>
    /\ normalize_ta \in BOOLEAN
    /\ NoComparison
    /\ NoRequest
    /\ NoServer

\* text = normalize_arabic(text, normalize_ta)
NormalizeArabic ==
    /\ pc = "normalize"
    /\ Len(text_hist) < 2
    /\ text' = normalize_arabic(text, normalize_ta)
    /\ text_hist' = Append(text_hist, text)
    /\ UNCHANGED <<pc, normalize_ta>>
    /\ UNCHANGED cmpVars
    /\ UNCHANGED ioVars
    /\ UNCHANGED streamVars

NextNorm == NormalizeArabic

SpecNorm == InitNorm /\ [][NextNorm]_vars

\* C5: normalize_arabic is idempotent: normalizing the output of a
\* normalization again, with the same normalize_ta flag, returns it unchanged.
C5_NormalizeIdempotent == Len(text_hist) = 2 => text = text_hist[2]

\* a text that the first normalization changed, and that has been normalized twice
C5_Witness ==
    /\ Len(text_hist) = 2
    /\ text_hist[1] # text_hist[2]
    /\ text # <<>>
    /\ \E i \in 1..Len(text_hist[1]) : text_hist[1][i] = YEH_HAMZA

\* C6: the output of normalize_arabic holds no diacritic mark (short vowels,
\* tanween, shadda, sukun), no tatweel and no hamza / madda form of alef.
C6_NoDiacriticsTatweelHamzaAlef ==
    Len(text_hist) >= 1 => \A i \in 1..Len(text) : text[i] \notin (Tashkeel \cup HamzaAlefs)

\* an input with a diacritic, a tatweel and a hamza alef, normalized to a non-empty text
C6_Witness ==
    /\ Len(text_hist) = 1
    /\ \E i, j, k \in 1..Len(text_hist[1]) :
          /\ text_hist[1][i] \in Tashkeel \ {TATWEEL}
          /\ text_hist[1][j] = TATWEEL
          /\ text_hist[1][k] \in HamzaAlefs
    /\ text = <<ALEF>>

\* the characters of s that a normalization neither deletes nor turns into
\* whitespace: its letters, in order
LettersOfInput(s) ==
    SelectSeq(s, LAMBDA c : c \notin Tashkeel /\ c \notin Whitespace /\ ~IsPunctuation(c))

LettersOfOutput(s) == SelectSeq(s, LAMBDA c : c \notin Whitespace)

\* C7: with normalize_ta the output holds no ta-marbuta; without it every
\* ta-marbuta of the input is kept, at the same position among the letters.
C7_TaMarbuta ==
    Len(text_hist) = 1 =>
        LET li == LettersOfInput(text_hist[1])
            lo == LettersOfOutput(text)
        IN  IF normalize_ta
            THEN \A i \in 1..Len(text) : text[i] # TEH_MARBUTA
            ELSE /\ Len(li) = Len(lo)
                 /\ \A i \in 1..Len(li) : (li[i] = TEH_MARBUTA) <=> (lo[i] = TEH_MARBUTA)

\* with the flag: two ta-marbutas went in and two hehs came out
C7_WitnessMapped ==
    /\ Len(text_hist) = 1
    /\ normalize_ta
    /\ text_hist[1] = <<TEH_MARBUTA, FATHA, TEH_MARBUTA>>
    /\ text = <<HEH, HEH>>

\* without the flag: a ta-marbuta behind a deleted mark and a punctuation sign is kept
C7_Witness ==
    /\ Len(text_hist) = 1
    /\ ~normalize_ta
    /\ text_hist[1] = <<BANG, FATHA, TEH_MARBUTA>>
    /\ text = <<TEH_MARBUTA>>

-----------------------------------------------------------------------------
(* Specification SpecDiff: get_diff_words and highlight_differences called  *)
(* on a pair of strings, as src/tests/test_utils.py:13-20 does.             *)

DiffAlphabet == {BEH, SPACE}

InitDiff ==
    /\ pc = "diff"
    /\ comp_orig \in SeqsUpTo(DiffAlphabet, MaxDiffLen)
    /\ comp_rec \in SeqsUpTo(DiffAlphabet, MaxDiffLen)
    /\ original_text = comp_orig
    /\ recognized = comp_rec
    /\ use_normalized_for_comparison = FALSE
    /\ normalize_ta = FALSE
    /\ percent = 0
    /\ diffs = [missing |-> <<>>, extra |-> <<>>, replaced |-> <<>>]
    /\ orig_html = <<>>
    /\ rec_html = <<>>
    /\ text = <<>>
    /\ text_hist = <<>>
    /\ NoRequest
    /\ NoServer

\* diffs = get_diff_words(orig, rec)
GetDiffWords ==
    /\ pc = "diff"
    /\ diffs' = get_diff_words(comp_orig, comp_rec)
    /\ pc' = "highlight"
    /\ UNCHANGED <<original_text, recognized, use_normalized_for_comparison, normalize_ta,
                   comp_orig, comp_rec, percent, orig_html, rec_html>>
    /\ UNCHANGED normVars
    /\ UNCHANGED ioVars
    /\ UNCHANGED streamVars

\* o_html, r_html = highlight_differences(orig, rec)
HighlightDifferences ==
    /\ pc = "highlight"
    /\ orig_html' = highlight_differences(comp_orig, comp_rec)[1]
    /\ rec_html' = highlight_differences(comp_orig, comp_rec)[2]
    /\ pc' = "diffed"
    /\ UNCHANGED <<original_text, recognized, use_normalized_for_comparison, normalize_ta,
                   comp_orig, comp_rec, percent, diffs>>
    /\ UNCHANGED normVars
    /\ UNCHANGED ioVars
    /\ UNCHANGED streamVars

NextDiff == GetDiffWords \/ HighlightDifferences

SpecDiff == InitDiff /\ [][NextDiff]_vars

\* get_diff_words has returned
DiffDone == pc \in {"highlight", "diffed"}

\* the reference and the candidate word sequence
RefWords == Split(comp_orig)
CandWords == Split(comp_rec)

Range(s) == {s[n] : n \in 1..Len(s)}

Take(s, n) == Slice(s, 0, n)
Drop(s, n) == Slice(s, n, Len(s))

\* The reference side merged in opcode order from the returned lists: an
\* Equal span gives its reference words, a Delete span the next words of
\* missing, a Replace span the reference side of the next pairs of replaced
\* (as many as get_diff_words appended for the span).
RECURSIVE MergeRef(_, _, _, _)
MergeRef(ops, ow, missing, replaced) ==
    IF ops = <<>> THEN <<>>
    ELSE LET op == Head(ops)
             n == op.i2 - op.i1
             m == Min(n, op.j2 - op.j1)
         IN  IF op.tag = "equal"
             THEN Slice(ow, op.i1, op.i2) \o MergeRef(Tail(ops), ow, missing, replaced)
             ELSE IF op.tag = "delete"
             THEN Take(missing, n) \o MergeRef(Tail(ops), ow, Drop(missing, n), replaced)
             ELSE IF op.tag = "replace"
             THEN [q \in 1..Len(Take(replaced, m)) |-> replaced[q][1]]
                  \o MergeRef(Tail(ops), ow, missing, Drop(replaced, m))
             ELSE MergeRef(Tail(ops), ow, missing, replaced)

\* The candidate side merged in opcode order: Equal spans, extra under
\* Insert spans, the candidate side of replaced under Replace spans.
RECURSIVE MergeCand(_, _, _, _)
MergeCand(ops, rw, extra, replaced) ==
    IF ops = <<>> THEN <<>>
    ELSE LET op == Head(ops)
             n == op.j2 - op.j1
             m == Min(n, op.i2 - op.i1)
         IN  IF op.tag = "equal"
             THEN Slice(rw, op.j1, op.j2) \o MergeCand(Tail(ops), rw, extra, replaced)
             ELSE IF op.tag = "insert"
             THEN Take(extra, n) \o MergeCand(Tail(ops), rw, Drop(extra, n), replaced)
             ELSE IF op.tag = "replace"
             THEN [q \in 1..Len(Take(replaced, m)) |-> replaced[q][2]]
                  \o MergeCand(Tail(ops), rw, extra, Drop(replaced, m))
             ELSE MergeCand(Tail(ops), rw, extra, replaced)

\* C2: merging in opcode order missing, the reference side of replaced and the
\* reference words of Equal spans gives back the whole reference word
\* sequence, and extra, the candidate side of replaced and the candidate words
\* of Equal spans give back the whole candidate word sequence.
C2_NoWordLost ==
    DiffDone =>
        LET ops == get_opcodes(RefWords, CandWords)
        IN  /\ MergeRef(ops, RefWords, diffs.missing, diffs.replaced) = RefWords
            /\ MergeCand(ops, CandWords, diffs.extra, diffs.replaced) = CandWords

\* the words differ at position p and nowhere else
OneWordAltered(ow, rw, p) ==
    /\ Len(ow) = Len(rw)
    /\ p \in 1..Len(ow)
    /\ ow[p] # rw[p]
    /\ \A q \in 1..Len(ow) : q # p => ow[q] = rw[q]

\* C3 as stated: whenever reference and candidate have the same number of
\* words and differ at one position only, that pair of words is in replaced
\* and missing and extra are empty.
C3_OneWordAlteredOriginal ==
    DiffDone =>
        \A p \in 1..Len(RefWords) :
            OneWordAltered(RefWords, CandWords, p) =>
                /\ <<RefWords[p], CandWords[p]>> \in Range(diffs.replaced)
                /\ diffs.missing = <<>>
                /\ diffs.extra = <<>>

\* C3 amended: the same, when moreover the reference word of that position
\* occurs nowhere in the candidate and the candidate word nowhere in the
\* reference.
C3_OneWordAltered ==
    DiffDone =>
        \A p \in 1..Len(RefWords) :
            ( /\ OneWordAltered(RefWords, CandWords, p)
              /\ RefWords[p] \notin Range(CandWords)
              /\ CandWords[p] \notin Range(RefWords) ) =>
                /\ <<RefWords[p], CandWords[p]>> \in Range(diffs.replaced)
                /\ diffs.missing = <<>>
                /\ diffs.extra = <<>>

\* "b bb" against "b bbb": the second word is altered and reported as replaced
C3_Witness ==
    /\ pc = "diffed"
    /\ RefWords = <<(<<BEH>>), (<<BEH, BEH>>)>>
    /\ CandWords = <<(<<BEH>>), (<<BEH, BEH, BEH>>)>>
    /\ diffs.replaced = <<(<<(<<BEH, BEH>>), (<<BEH, BEH, BEH>>)>>)>>

IsProperPrefix(p, s) == Len(p) < Len(s) /\ SubSeq(s, 1, Len(p)) = p

\* C4: when the candidate words are a proper prefix of the reference words,
\* missing is exactly the remaining reference words in order, and extra and
\* replaced are empty.
C4_ProperPrefix ==
    (DiffDone /\ IsProperPrefix(CandWords, RefWords)) =>
        diffs = [missing |-> SubSeq(RefWords, Len(CandWords) + 1, Len(RefWords)),
                 extra |-> <<>>,
                 replaced |-> <<>>]

\* "b bb b" against "b": the two trailing words are missing
C4_Witness ==
    /\ pc = "diffed"
    /\ RefWords = <<(<<BEH>>), (<<BEH, BEH>>), (<<BEH>>)>>
    /\ CandWords = <<(<<BEH>>)>>
    /\ diffs.missing = <<(<<BEH, BEH>>), (<<BEH>>)>>

-----------------------------------------------------------------------------
(* Specification SpecCompare: the comparison applied to a reference, a      *)
(* candidate and the two checkboxes.                                       *)

CompareAlphabet == {BEH, TEH_MARBUTA, SPACE}

InitCompare ==
    /\ pc = "compare"
    /\ original_text \in SeqsUpTo(CompareAlphabet, MaxTextLen)
    /\ recognized \in SeqsUpTo(CompareAlphabet, MaxTextLen)
    /\ normalize_ta \in BOOLEAN
    /\ use_normalized_for_comparison \in BOOLEAN
    /\ comp_orig = <<>>
    /\ comp_rec = <<>>
    /\ percent = 0
    /\ diffs = [missing |-> <<>>, extra |-> <<>>, replaced |-> <<>>]
    /\ orig_html = <<>>
    /\ rec_html = <<>>
    /\ text = <<>>
    /\ text_hist = <<>>
    /\ NoRequest
    /\ NoServer

\* lines 398-420 with the texts and the checkboxes of the state
Compared(next_pc) ==
    \E c \in {Comparison(original_text, recognized, normalize_ta, use_normalized_for_comparison)} :
        /\ comp_orig' = c.comp_orig
        /\ comp_rec' = c.comp_rec
        /\ percent' = c.percent
        /\ orig_html' = c.orig_html
        /\ rec_html' = c.rec_html
        /\ diffs' = c.diffs
        /\ pc' = next_pc
        /\ UNCHANGED <<original_text, recognized, normalize_ta, use_normalized_for_comparison>>
        /\ UNCHANGED normVars

CompareTexts ==
    /\ pc = "compare"
    /\ Compared("compared")
    /\ UNCHANGED ioVars
    /\ UNCHANGED streamVars

NextCompare == CompareTexts

SpecCompare == InitCompare /\ [][NextCompare]_vars

NoDiffs == [missing |-> <<>>, extra |-> <<>>, replaced |-> <<>>]

\* C1: a non-empty text compared against itself, with either setting of the
\* two checkboxes, gives a similarity of 100.0 and empty missing, extra and
\* replaced lists.
C1_SelfComparison ==
    (pc = "compared" /\ original_text = recognized /\ original_text # <<>>) =>
        (percent = 10000 /\ diffs = NoDiffs)

\* "b ة" compared against itself on the normalized texts, ta-marbuta mapped
C1_Witness ==
    /\ pc = "compared"
    /\ original_text = <<BEH, SPACE, TEH_MARBUTA>>
    /\ recognized = original_text
    /\ normalize_ta /\ use_normalized_for_comparison
    /\ comp_orig = <<BEH, SPACE, HEH>>
    /\ percent = 10000

\* C8: when both compared strings are empty the similarity is 100.0 and
\* missing, extra and replaced are empty.
C8_BothEmpty ==
    (pc = "compared" /\ comp_orig = <<>> /\ comp_rec = <<>>) =>
        (percent = 10000 /\ diffs = NoDiffs)

\* two empty texts have been compared
C8_Witness ==
    /\ pc = "compared"
    /\ original_text = <<>>
    /\ recognized = <<>>
    /\ percent = 10000

\* C9: the similarity is round(100 * 2*M / T, 2) and lies in [0, 100], M being
\* the number of matched characters and T the total length of the two
\* compared strings: 0 <= 2*M <= T.
C9_PercentInRange ==
    pc = "compared" =>
        LET M == Matches(comp_orig, comp_rec)
            T == Len(comp_orig) + Len(comp_rec)
        IN  /\ 0 <= 2 * M /\ 2 * M <= T
            /\ percent >= 0 /\ percent <= 10000
            /\ T > 0 => percent = RoundHalfEven(10000 * 2 * M, T)

\* "bهb" against "هb": two of five characters match twice over, 80.0 percent
C9_Witness ==
    /\ pc = "compared"
    /\ comp_orig = <<BEH, HEH, BEH>>
    /\ comp_rec = <<HEH, BEH>>
    /\ percent = 8000

-----------------------------------------------------------------------------
(* Specification Spec: one click on the Analyze button, src/app.py:361-512. *)
(* The handler is cut where it calls a collaborator: the pydub conversion   *)
(* (convert_to_wav) and the speech recognition (transcribe_audio).          *)

AnalyzeAlphabet == {BEH, TEH_MARBUTA, SPACE, BANG}

Init ==
    /\ pc = "idle"
    /\ uploaded_file \in {"none", ".wav", ".mp3"}
    /\ original_text \in SeqsUpTo(AnalyzeAlphabet, MaxAnalyzeLen)
    /\ normalize_ta \in BOOLEAN
    /\ use_normalized_for_comparison \in BOOLEAN
    /\ recognized = <<>>
    /\ comp_orig = <<>>
    /\ comp_rec = <<>>
    /\ percent = 0
    /\ diffs = [missing |-> <<>>, extra |-> <<>>, replaced |-> <<>>]
    /\ orig_html = <<>>
    /\ rec_html = <<>>
    /\ text = <<>>
    /\ text_hist = <<>>
    /\ files = {}
    /\ wav_path = "unset"
    /\ shown = {}
    /\ raised = "none"
    /\ NoServer

requestVars == <<original_text, normalize_ta, use_normalized_for_comparison, uploaded_file>>
resultVars == <<comp_orig, comp_rec, percent, diffs, orig_html, rec_html>>

\* lines 362-364: "if not uploaded_file: st.error(...); return"
RefuseNoUpload ==
    /\ pc = "idle"
    /\ uploaded_file = "none"
    /\ shown' = shown \cup {"please_upload"}
    /\ pc' = "refused"
    /\ UNCHANGED <<recognized, files, wav_path, raised>>
    /\ UNCHANGED <<requestVars, resultVars, normVars>>
    /\ UNCHANGED streamVars

\* lines 365-367: "if not original_text or original_text.strip() == '': ...; return"
RefuseBlankOriginal ==
    /\ pc = "idle"
    /\ uploaded_file # "none"
    /\ Strip(original_text) = <<>>
    /\ shown' = shown \cup {"please_enter_original"}
    /\ pc' = "refused"
    /\ UNCHANGED <<recognized, files, wav_path, raised>>
    /\ UNCHANGED <<requestVars, resultVars, normVars>>
    /\ UNCHANGED streamVars

\* lines 370-379: the upload is copied to the temporary file tmp_in, whose
\* suffix is that of the upload, and wav_path = tmp_in.name
SaveUpload ==
    /\ pc = "idle"
    /\ uploaded_file # "none"
    /\ Strip(original_text) # <<>>
    /\ files' = files \cup {"tmp_in"}
    /\ wav_path' = "tmp_in"
    /\ pc' = IF uploaded_file = ".wav" THEN "transcribe" ELSE "convert"
    /\ UNCHANGED <<recognized, shown, raised>>
    /\ UNCHANGED <<requestVars, resultVars, normVars>>
    /\ UNCHANGED streamVars

\* lines 380-381 and 211-221: convert_to_wav returns the path of a new WAV file
ConvertOk ==
    /\ pc = "convert"
    /\ files' = files \cup {"tmp_wav"}
    /\ wav_path' = "tmp_wav"
    /\ pc' = "transcribe"
    /\ UNCHANGED <<recognized, shown, raised>>
    /\ UNCHANGED <<requestVars, resultVars, normVars>>
    /\ UNCHANGED streamVars

\* lines 382-385: convert_to_wav raises, in AudioSegment.from_file (line 216,
\* no file created yet: ffmpeg missing, undecodable audio) or in sound.export
\* (line 220, the temporary WAV file exists already); the handler reports it
\* and falls back to the uploaded file
ConvertFails ==
    /\ pc = "convert"
    /\ \E exported \in BOOLEAN :
          files' = IF exported THEN files \cup {"tmp_wav"} ELSE files
    /\ shown' = shown \cup {"convert_failed"}
    /\ wav_path' = "tmp_in"
    /\ pc' = "transcribe"
    /\ UNCHANGED <<recognized, raised>>
    /\ UNCHANGED <<requestVars, resultVars, normVars>>
    /\ UNCHANGED streamVars

\* the file at wav_path is one speech_recognition.AudioFile can open: the
\* converted file, or an uploaded .wav
IsWavFile == wav_path = "tmp_wav" \/ uploaded_file = ".wav"

\* lines 388-390 and 199-208: transcribe_audio returns a transcript
TranscribeOk ==
    /\ pc = "transcribe"
    /\ IsWavFile
    /\ recognized' \in SeqsUpTo(AnalyzeAlphabet, MaxAnalyzeLen)
    /\ pc' = "compare"
    /\ UNCHANGED <<files, wav_path, shown, raised>>
    /\ UNCHANGED <<requestVars, resultVars, normVars>>
    /\ UNCHANGED streamVars

\* lines 391-393: recognize_google raises UnknownValueError
TranscribeUnknownValue ==
    /\ pc = "transcribe"
    /\ IsWavFile
    /\ shown' = shown \cup {"could_not_understand_audio"}
    /\ recognized' = <<>>
    /\ pc' = "compare"
    /\ UNCHANGED <<files, wav_path, raised>>
    /\ UNCHANGED <<requestVars, resultVars, normVars>>
    /\ UNCHANGED streamVars

\* lines 394-396: recognize_google raises RequestError
TranscribeRequestError ==
    /\ pc = "transcribe"
    /\ IsWavFile
    /\ shown' = shown \cup {"stt_request_error"}
    /\ recognized' = <<>>
    /\ pc' = "compare"
    /\ UNCHANGED <<files, wav_path, raised>>
    /\ UNCHANGED <<requestVars, resultVars, normVars>>
    /\ UNCHANGED streamVars

\* line 205: sr.AudioFile cannot read the file as WAV, AIFF or FLAC and raises
\* ValueError: always for the uploaded .mp3 after a failed conversion,
\* possibly for a damaged .wav; neither except clause of lines 391-396
\* matches, so the exception leaves the try block through "finally"
TranscribeUnreadable ==
    /\ pc = "transcribe"
    /\ raised' = "ValueError"
    /\ pc' = "finally"
    /\ UNCHANGED <<recognized, files, wav_path, shown>>
    /\ UNCHANGED <<requestVars, resultVars, normVars>>
    /\ UNCHANGED streamVars

\* lines 398-500: the comparison and its display
AnalyzeCompare ==
    /\ pc = "compare"
    /\ Compared("finally")
    /\ UNCHANGED ioVars
    /\ UNCHANGED streamVars

\* lines 502-512: os.remove(tmp_in.name), and os.remove(wav_path) when
\* wav_path is bound and is not tmp_in.name
Finally ==
    /\ pc = "finally"
    /\ files' = (files \ {"tmp_in"}) \ (IF wav_path \notin {"unset", "tmp_in"} THEN {wav_path} ELSE {})
    /\ pc' = IF raised = "none" THEN "done" ELSE "raised"
    /\ UNCHANGED <<recognized, wav_path, shown, raised>>
    /\ UNCHANGED <<requestVars, resultVars, normVars>>
    /\ UNCHANGED streamVars

Next ==
    \/ RefuseNoUpload
    \/ RefuseBlankOriginal
    \/ SaveUpload
    \/ ConvertOk
    \/ ConvertFails
    \/ TranscribeOk
    \/ TranscribeUnknownValue
    \/ TranscribeRequestError
    \/ TranscribeUnreadable
    \/ AnalyzeCompare
    \/ Finally

Spec == Init /\ [][Next]_vars

\* C10: every failure of a collaborator during Analyze (conversion failure,
\* unintelligible audio, unreachable transcription service) is caught and
\* reported: the handler never ends with an uncaught exception, and after a
\* transcription failure the comparison runs with an empty candidate.
C10_FailuresCaught ==
    /\ pc \in {"done", "raised"} => raised = "none"
    /\ (pc = "done" /\ shown \cap {"could_not_understand_audio", "stt_request_error"} # {}) =>
          (recognized = <<>> /\ comp_rec = <<>>)

-----------------------------------------------------------------------------
(* The opcodes and the lists derived from them (specification SpecDiff). *)

WordOpcodes == get_opcodes(RefWords, CandWords)

\* the tag of an opcode agrees with its spans
WellFormedOpcode(op) ==
    /\ op.i1 <= op.i2 /\ op.j1 <= op.j2
    /\ \/ op.tag = "equal" /\ op.i1 < op.i2 /\ op.j1 < op.j2
       \/ op.tag = "replace" /\ op.i1 < op.i2 /\ op.j1 < op.j2
       \/ op.tag = "delete" /\ op.i1 < op.i2 /\ op.j1 = op.j2
       \/ op.tag = "insert" /\ op.i1 = op.i2 /\ op.j1 < op.j2

\* ops continues from (i, j) without gap or overlap and ends at (la, lb)
RECURSIVE CoversFrom(_, _, _, _, _)
CoversFrom(ops, i, j, la, lb) ==
    IF ops = <<>> THEN i = la /\ j = lb
    ELSE /\ Head(ops).i1 = i
         /\ Head(ops).j1 = j
         /\ WellFormedOpcode(Head(ops))
         /\ CoversFrom(Tail(ops), Head(ops).i2, Head(ops).j2, la, lb)

\* C11: the opcode list of two word sequences starts at index 0 on both
\* sides, every opcode starts where the previous one ended, the last one ends
\* at the two lengths, and every opcode is Equal, Replace, Delete (empty
\* candidate span) or Insert (empty reference span).
C11_OpcodesCover ==
    DiffDone => CoversFrom(WordOpcodes, 0, 0, Len(RefWords), Len(CandWords))

\* "bb b" against "b b bb": a Delete, an Equal and an Insert opcode, the
\* last one the gap before the closing block
C11_Witness ==
    /\ pc = "diffed"
    /\ RefWords = <<(<<BEH, BEH>>), (<<BEH>>)>>
    /\ Len(CandWords) = 3
    /\ Len(WordOpcodes) = 3
    /\ WordOpcodes[1].tag = "delete"
    /\ WordOpcodes[3].tag = "insert"

\* the pairs a Replace opcode stands for: the k-th reference word of its span
\* with the k-th candidate word, for as many k as the shorter span has words
PairsOf(op, ow, rw) ==
    [k \in 1..Min(op.i2 - op.i1, op.j2 - op.j1) |-> <<ow[op.i1 + k], rw[op.j1 + k]>>]

RECURSIVE ReplacedOf(_, _, _)
ReplacedOf(ops, ow, rw) ==
    IF ops = <<>> THEN <<>>
    ELSE (IF Head(ops).tag = "replace" THEN PairsOf(Head(ops), ow, rw) ELSE <<>>)
         \o ReplacedOf(Tail(ops), ow, rw)

\* the number of reference (side = 1) or candidate (side = 2) words under the
\* opcodes of the tag
RECURSIVE SpanTotal(_, _, _)
SpanTotal(ops, tag, side) ==
    IF ops = <<>> THEN 0
    ELSE (IF Head(ops).tag # tag THEN 0
          ELSE IF side = 1 THEN Head(ops).i2 - Head(ops).i1
          ELSE Head(ops).j2 - Head(ops).j1)
         + SpanTotal(Tail(ops), tag, side)

\* C12: each Replace opcode adds to replaced exactly min(len(ref_span),
\* len(cand_span)) pairs, the k-th reference word of the span with the k-th
\* candidate word; the surplus words of the longer span go nowhere: missing
\* and extra hold no more words than the Delete and the Insert spans have.
C12_ReplacePairs ==
    DiffDone =>
        /\ diffs.replaced = ReplacedOf(WordOpcodes, RefWords, CandWords)
        /\ Len(diffs.replaced) <= SpanTotal(WordOpcodes, "replace", 1)
        /\ Len(diffs.replaced) <= SpanTotal(WordOpcodes, "replace", 2)
        /\ Len(diffs.missing) = SpanTotal(WordOpcodes, "delete", 1)
        /\ Len(diffs.extra) = SpanTotal(WordOpcodes, "insert", 2)

\* "b b" against "bb": one Replace opcode over two reference words and one
\* candidate word, one pair, the second "b" reported nowhere
C12_Witness ==
    /\ pc = "diffed"
    /\ RefWords = <<(<<BEH>>), (<<BEH>>)>>
    /\ CandWords = <<(<<BEH, BEH>>)>>
    /\ WordOpcodes = <<Opcode("replace", 0, 2, 0, 1)>>
    /\ diffs = [missing |-> <<>>, extra |-> <<>>,
                replaced |-> <<(<<(<<BEH>>), (<<BEH, BEH>>)>>)>>]

\* the words of ws under the opcodes of the tag, in opcode order; side = 1
\* takes the reference span of an opcode, side = 2 the candidate span
RECURSIVE SpanWords(_, _, _, _)
SpanWords(ops, tag, side, ws) ==
    IF ops = <<>> THEN <<>>
    ELSE (IF Head(ops).tag # tag THEN <<>>
          ELSE IF side = 1 THEN Slice(ws, Head(ops).i1, Head(ops).i2)
          ELSE Slice(ws, Head(ops).j1, Head(ops).j2))
         \o SpanWords(Tail(ops), tag, side, ws)

\* C13: missing is exactly the reference words under Delete opcodes and extra
\* exactly the candidate words under Insert opcodes, both in opcode order;
\* the words under Replace opcodes are in neither of them.
C13_MissingExtra ==
    DiffDone =>
        /\ diffs.missing = SpanWords(WordOpcodes, "delete", 1, RefWords)
        /\ diffs.extra = SpanWords(WordOpcodes, "insert", 2, CandWords)

\* "bb b b" against "b bbb": a Delete, an Equal and a Replace opcode; only
\* the deleted word is missing
C13_Witness ==
    /\ pc = "diffed"
    /\ comp_orig = <<BEH, BEH, SPACE, BEH, SPACE, BEH>>
    /\ comp_rec = <<BEH, SPACE, BEH, BEH, BEH>>
    /\ \E n \in 1..Len(WordOpcodes) : WordOpcodes[n].tag = "replace"
    /\ \E n \in 1..Len(WordOpcodes) : WordOpcodes[n].tag = "delete"
    /\ diffs.missing = <<(<<BEH, BEH>>)>>
    /\ diffs.extra = <<>>

-----------------------------------------------------------------------------
(* The alignment the tie-break rule describes, defined from the rule and    *)
(* not from the scan: the longest common block of the two ranges, of those  *)
(* the one that starts first in the reference, of those the one that        *)
(* starts first in the candidate, then the same left and right of it.       *)

\* the length of the longest common run that starts at a[i], b[j] and stays
\* inside a[:ahi], b[:bhi]
RECURSIVE CommonRun(_, _, _, _, _, _)
CommonRun(a, b, i, j, ahi, bhi) ==
    IF i >= ahi \/ j >= bhi THEN 0
    ELSE IF a[i + 1] # b[j + 1] THEN 0
         ELSE 1 + CommonRun(a, b, i + 1, j + 1, ahi, bhi)

MaxOf(S) == CHOOSE x \in S : \A y \in S : y <= x
MinOf(S) == CHOOSE x \in S : \A y \in S : x <= y

\* <<i, j, k>> of the rule for a[alo:ahi], b[blo:bhi]; k = 0 when the ranges
\* share no item
RuleAnchor(a, b, alo, ahi, blo, bhi) ==
    LET starts == (alo..(ahi - 1)) \X (blo..(bhi - 1))
        k == MaxOf({0} \cup {CommonRun(a, b, s[1], s[2], ahi, bhi) : s \in starts})
        longest == {s \in starts : CommonRun(a, b, s[1], s[2], ahi, bhi) = k}
        i == MinOf({s[1] : s \in longest})
        j == MinOf({s[2] : s \in {t \in longest : t[1] = i}})
    IN  IF k = 0 THEN <<alo, blo, 0>> ELSE <<i, j, k>>

RECURSIVE RuleBlocks(_, _, _, _, _, _)
RuleBlocks(a, b, alo, ahi, blo, bhi) ==
    LET x == RuleAnchor(a, b, alo, ahi, blo, bhi)
    IN  IF x[3] = 0 THEN <<>>
        ELSE RuleBlocks(a, b, alo, x[1], blo, x[2])
             \o <<x>>
             \o RuleBlocks(a, b, x[1] + x[3], ahi, x[2] + x[3], bhi)

\* the opcodes between and over the blocks of the rule
RuleOpcodes(a, b) ==
    OpcodesFrom(Append(NonAdjacent(RuleBlocks(a, b, 0, Len(a), 0, Len(b)), <<0, 0, 0>>),
                       <<Len(a), Len(b), 0>>),
                0, 0)

\* some range of the alignment has two longest common blocks
SeveralLongest(a, b) ==
    LET x == RuleAnchor(a, b, 0, Len(a), 0, Len(b))
    IN  /\ x[3] > 0
        /\ \E s \in (0..(Len(a) - 1)) \X (0..(Len(b) - 1)) :
              /\ s # <<x[1], x[2]>>
              /\ CommonRun(a, b, s[1], s[2], Len(a), Len(b)) = x[3]

\* C14: the alignment anchors on the longest common block, among several of
\* equal length on the one with the smallest reference start and then the
\* smallest candidate start, and does the same left and right of it: the
\* opcodes, and so missing, extra and replaced, are those of that choice.
C14_TieBreak ==
    DiffDone =>
        /\ WordOpcodes = RuleOpcodes(RefWords, CandWords)
        /\ diffs = DiffLoop(RuleOpcodes(RefWords, CandWords), RefWords, CandWords, NoDiffs)

(* A long recitation (specification SpecDiffLong): a candidate of some two  *)
(* hundred words, in which one word repeats, against a short reference.     *)
MaxRepeats == 199
MaxLongRefLen == 4

\* s * n
Repeat(s, n) == [k \in 1..(n * Len(s)) |-> s[((k - 1) % Len(s)) + 1]]

\* "bb b b ... b" with n times " b"
LongRecitation(n) == <<BEH, BEH>> \o Repeat(<<SPACE, BEH>>, n)

InitDiffLong ==
    /\ pc = "diff"
    /\ comp_orig \in SeqsUpTo(DiffAlphabet, MaxLongRefLen)
    /\ comp_rec \in {LongRecitation(n) : n \in (MaxRepeats - 2)..MaxRepeats}
    /\ original_text = comp_orig
    /\ recognized = comp_rec
    /\ use_normalized_for_comparison = FALSE
    /\ normalize_ta = FALSE
    /\ percent = 0
    /\ diffs = NoDiffs
    /\ orig_html = <<>>
    /\ rec_html = <<>>
    /\ text = <<>>
    /\ text_hist = <<>>
    /\ NoRequest
    /\ NoServer

SpecDiffLong == InitDiffLong /\ [][NextDiff]_vars

-----------------------------------------------------------------------------
(* The two renderings (specification SpecDiff). *)

\* the tag of the opcode whose reference span (side 1) or candidate span
\* (side 2) holds position n, counted from 0
TagAt(ops, side, n) ==
    LET covering == {k \in 1..Len(ops) :
                       IF side = 1 THEN ops[k].i1 <= n /\ n < ops[k].i2
                       ELSE ops[k].j1 <= n /\ n < ops[k].j2}
    IN  IF Cardinality(covering) = 1 THEN ops[CHOOSE k \in covering : TRUE].tag ELSE "none"

\* every word of ws once and in order, plain where its tag is equal and
\* marked where its tag is one of marked_tags
Rendering(ops, side, ws, marked_tags) ==
    [n \in 1..Len(ws) |->
        IF TagAt(ops, side, n - 1) = "equal" THEN ws[n]
        ELSE IF TagAt(ops, side, n - 1) \in marked_tags THEN Marked(ws[n])
        ELSE <<>>]

\* C15: the reference rendering is the reference words, each once and in
\* order, joined by a space, a word being plain when it lies in an equal span
\* and marked when it lies in a replace or delete span; the candidate rendering
\* is the candidate words likewise, marked under replace or insert.
C15_EveryWordOnce ==
    pc = "diffed" =>
        /\ orig_html = Join(<<SPACE>>, Rendering(WordOpcodes, 1, RefWords, {"replace", "delete"}))
        /\ rec_html = Join(<<SPACE>>, Rendering(WordOpcodes, 2, CandWords, {"replace", "insert"}))

\* "bb b b" against "b bbb": a deleted word, an equal word and a replaced one
C15_Witness ==
    /\ pc = "diffed"
    /\ RefWords = <<(<<BEH, BEH>>), (<<BEH>>), (<<BEH>>)>>
    /\ CandWords = <<(<<BEH>>), (<<BEH, BEH, BEH>>)>>
    /\ orig_html = Marked(<<BEH, BEH>>) \o <<SPACE, BEH, SPACE>> \o Marked(<<BEH>>)
    /\ rec_html = <<BEH, SPACE>> \o Marked(<<BEH, BEH, BEH>>)

-----------------------------------------------------------------------------
(* One side without words (specification SpecCompare). *)

\* the lists of get_diff_words when exactly one of the two compared strings
\* has no words: all words of the other side missing, or all of them extra
WordlessLists ==
    /\ (CandWords = <<>> /\ RefWords # <<>>) =>
          diffs = [missing |-> RefWords, extra |-> <<>>, replaced |-> <<>>]
    /\ (RefWords = <<>> /\ CandWords # <<>>) =>
          diffs = [missing |-> <<>>, extra |-> CandWords, replaced |-> <<>>]

ExactlyOneWordless == (RefWords = <<>>) # (CandWords = <<>>)

\* C16 as stated: when exactly one of the two compared strings has no words
\* the comparison completes, the similarity is 0 and every word of the other
\* string is in missing (empty candidate) or in extra (empty reference).
C16_OneSideWordlessOriginal ==
    (pc = "compared" /\ ExactlyOneWordless) => (percent = 0 /\ WordlessLists)

\* C16 amended: the same, the similarity being 0 when the two strings have
\* no character in common, as when the wordless one is the empty string; a
\* wordless string of whitespace matches the whitespace of the other one.
C16_OneSideWordless ==
    (pc = "compared" /\ ExactlyOneWordless) =>
        /\ WordlessLists
        /\ (Range(comp_orig) \cap Range(comp_rec) = {}) => percent = 0
        /\ (comp_orig = <<>> \/ comp_rec = <<>>) => percent = 0

\* "b b" against the empty string: both words missing, similarity 0
C16_Witness ==
    /\ pc = "compared"
    /\ comp_orig = <<BEH, SPACE, BEH>>
    /\ comp_rec = <<>>
    /\ percent = 0
    /\ diffs = [missing |-> <<(<<BEH>>), (<<BEH>>)>>, extra |-> <<>>, replaced |-> <<>>]

-----------------------------------------------------------------------------
(* Specification SpecStream: the streaming server, src/streaming_server.py. *)
(* Websocket connections, POST /submit_transcript and GET /transcript run   *)
(* on one event loop: a handler runs alone between two awaits.              *)

MaxLoad == 3    \* loop messages received plus assignments to transcripts, in a behaviour

\* transcripts[k] = v with every other key dropped
DictSetAlone(d, k, v) == [x \in {k} |-> v]

\* d[k] = v
DictSet(d, k, v) == [x \in (DOMAIN d) \cup {k} |-> IF x = k THEN v ELSE d[x]]

\* d.get(k, default)
DictGet(d, k, default) == IF k \in DOMAIN d THEN d[k] ELSE default

\* the first message of a connection: whether json.loads gives a dict, and
\* its "sampleRate" and "session" entries
InitMessages ==
    {[json |-> TRUE, sampleRate |-> "16000", session |-> "s1"],
     [json |-> TRUE, sampleRate |-> "absent", session |-> "absent"],
     [json |-> TRUE, sampleRate |-> "absent", session |-> ""],
     [json |-> TRUE, sampleRate |-> "x", session |-> "s1"],
     [json |-> FALSE, sampleRate |-> "absent", session |-> "absent"]}

\* lines 39-45: "default" when the message is not a JSON object, when
\* int(sampleRate) fails (the assignment of session is never reached), when
\* there is no session entry or when it is falsy
SessionOf(m) ==
    IF ~m.json THEN "default"
    ELSE IF m.sampleRate = "x" THEN "default"
    ELSE IF m.session \in {"absent", ""} THEN "default"
    ELSE m.session

FinalTexts == {"a"}
PartialTexts == {"p"}

Message(type, txt) == [type |-> type, text |-> txt]

\* the handler of connection c goes from one state to another
ConnStep(c, new) == conns' = [conns EXCEPT ![c] = new]

\* "finally: await websocket.close()"; how the handler ended: "return",
\* "__close__" (break), or "raised" (an exception, caught at line 79 or not)
Closed(conn, how) == [conn EXCEPT !.pc = "closed", !.ended = how]

\* line 32: await websocket.accept()
Accept(c) ==
    /\ conns[c].pc = "none"
    /\ ConnStep(c, [conns[c] EXCEPT !.pc = "init"])
    /\ UNCHANGED <<transcripts, writes, response>>

\* lines 38-45: the init message received and parsed
ReceiveInit(c) ==
    /\ conns[c].pc = "init"
    /\ \E m \in InitMessages :
          ConnStep(c, [conns[c] EXCEPT !.pc = "load", !.session = SessionOf(m)])
    /\ UNCHANGED <<transcripts, writes, response>>

\* line 38: receive_text raises, WebSocketDisconnect when the client has gone
\* (caught at line 79) or KeyError when the first message is binary
InitFails(c) ==
    /\ conns[c].pc = "init"
    /\ ConnStep(c, Closed(conns[c], "raised"))
    /\ UNCHANGED <<transcripts, writes, response>>

\* lines 49-56: the recognizer made, 'ready' sent; a send raises when the
\* client has gone
LoadModelOk(c) ==
    /\ conns[c].pc = "load"
    /\ \E delivered \in BOOLEAN :
          LET conn == [conns[c] EXCEPT !.model = "loaded",
                                       !.sent = Append(@, Message("ready", conns[c].session))]
          IN  ConnStep(c, IF delivered THEN [conn EXCEPT !.pc = "loop"]
                          ELSE Closed(conn, "raised"))
    /\ UNCHANGED <<transcripts, writes, response>>

\* lines 51-54: get_vosk_model or KaldiRecognizer raises: 'error' sent, the
\* connection closed, return
LoadModelFails(c) ==
    /\ conns[c].pc = "load"
    /\ ConnStep(c, Closed([conns[c] EXCEPT !.model = "failed",
                                           !.sent = Append(@, Message("error", ""))],
                          "return"))
    /\ UNCHANGED <<transcripts, writes, response>>

\* the messages received in the loops so far
Received == conns["c1"].received + conns["c2"].received

\* the messages received and the assignments made so far, an assignment
\* counted from the receipt of the message that leads to it
Load == Received + Len(writes) + Cardinality({d \in Conns : conns[d].pc = "store"})

\* lines 60-64: binary message, AcceptWaveform true: 'final' sent; the store
\* of line 66 comes after the await
ReceiveFinal(c) ==
    /\ conns[c].pc = "loop"
    /\ Load + 2 <= MaxLoad
    /\ \E txt \in FinalTexts, delivered \in BOOLEAN :
          LET conn == [conns[c] EXCEPT !.received = @ + 1,
                                       !.sent = Append(@, Message("final", txt))]
          IN  ConnStep(c, IF delivered THEN [conn EXCEPT !.pc = "store", !.pending = txt]
                          ELSE Closed(conn, "raised"))
    /\ UNCHANGED <<transcripts, writes, response>>

\* line 66: transcripts[session] = json.loads(res).get("text", "")
StoreFinal(c) ==
    /\ conns[c].pc = "store"
    /\ transcripts' = DictSet(transcripts, conns[c].session, conns[c].pending)
    /\ writes' = Append(writes, [session |-> conns[c].session, text |-> conns[c].pending])
    /\ ConnStep(c, [conns[c] EXCEPT !.pc = "loop", !.pending = ""])
    /\ UNCHANGED response

\* the partial result stored under the session as a final one is
ReceivePartialStored(c) ==
    /\ conns[c].pc = "loop"
    /\ Load < MaxLoad
    /\ \E txt \in PartialTexts :
          /\ ConnStep(c, [conns[c] EXCEPT !.received = @ + 1,
                                          !.sent = Append(@, Message("partial", txt))])
          /\ transcripts' = DictSet(transcripts, conns[c].session, txt)
          /\ writes' = Append(writes, [session |-> conns[c].session, text |-> txt])
    /\ UNCHANGED response

\* lines 67-69: binary message, AcceptWaveform false: 'partial' sent
ReceivePartial(c) ==
    /\ conns[c].pc = "loop"
    /\ Load < MaxLoad
    /\ \E txt \in PartialTexts, delivered \in BOOLEAN :
          LET conn == [conns[c] EXCEPT !.received = @ + 1,
                                       !.sent = Append(@, Message("partial", txt))]
          IN  ConnStep(c, IF delivered THEN conn ELSE Closed(conn, "raised"))
    /\ UNCHANGED <<transcripts, writes, response>>

\* line 62: AcceptWaveform raises on the binary message
AcceptWaveformRaises(c) ==
    /\ conns[c].pc = "loop"
    /\ Load < MaxLoad
    /\ ConnStep(c, Closed([conns[c] EXCEPT !.received = @ + 1], "raised"))
    /\ UNCHANGED <<transcripts, writes, response>>

\* lines 72-77: a text message other than "__close__" is ignored
ReceiveControl(c) ==
    /\ conns[c].pc = "loop"
    /\ Load < MaxLoad
    /\ ConnStep(c, [conns[c] EXCEPT !.received = @ + 1])
    /\ UNCHANGED <<transcripts, writes, response>>

\* lines 75-76: "__close__": break
ReceiveClose(c) ==
    /\ conns[c].pc = "loop"
    /\ ConnStep(c, Closed(conns[c], "__close__"))
    /\ UNCHANGED <<transcripts, writes, response>>

\* lines 59, 72-74: the disconnect message has neither bytes nor text,
\* "continue", and the next receive() raises RuntimeError
ClientDisconnects(c) ==
    /\ conns[c].pc = "loop"
    /\ ConnStep(c, Closed(conns[c], "raised"))
    /\ UNCHANGED <<transcripts, writes, response>>

\* the JSON objects posted to /submit_transcript
Bodies == [session : {"absent", "s1"}, text : {"absent", "b"}]

\* lines 88-94
SubmitTranscript ==
    /\ Load < MaxLoad
    /\ \E body \in Bodies :
          LET session == IF body.session = "absent" THEN "default" ELSE body.session
              txt == IF body.text = "absent" THEN "" ELSE body.text
          IN  /\ transcripts' = DictSet(transcripts, session, txt)
              /\ writes' = Append(writes, [session |-> session, text |-> txt])
    /\ UNCHANGED <<conns, response>>

\* the session parameter of GET /transcript
Queries == {"absent", "s1", "s2"}

\* lines 97-99, the body of the response
get_transcript(session) ==
    [session |-> session, text |-> DictGet(transcripts, session, "")]

GetTranscript ==
    /\ \E q \in Queries : response' = get_transcript(IF q = "absent" THEN "default" ELSE q)
    /\ UNCHANGED <<transcripts, conns, writes>>

InitStream ==
    /\ pc = "serve"
    /\ text = <<>>
    /\ text_hist = <<>>
    /\ normalize_ta = FALSE
    /\ NoComparison
    /\ NoRequest
    /\ NoServer

Unserved == <<pc, normVars, normalize_ta, cmpVars, ioVars>>

NextStream ==
    \/ \E c \in Conns :
          \/ Accept(c)
          \/ ReceiveInit(c)
          \/ InitFails(c)
          \/ LoadModelOk(c)
          \/ LoadModelFails(c)
          \/ ReceiveFinal(c)
          \/ StoreFinal(c)
          \/ ReceivePartial(c)
          \/ AcceptWaveformRaises(c)
          \/ ReceiveControl(c)
          \/ ReceiveClose(c)
          \/ ClientDisconnects(c)
    \/ SubmitTranscript
    \/ GetTranscript

SpecStream == InitStream /\ [][NextStream /\ UNCHANGED Unserved]_vars

-----------------------------------------------------------------------------
(* The transcripts of the streaming server (specification SpecStream). *)

AllSessions == {"default", "s1", "s2"}

\* the text of the last write to session s in the log, "" when there is none
LastWrite(log, s) ==
    LET ns == {n \in 1..Len(log) : log[n].session = s}
    IN  IF ns = {} THEN "" ELSE log[MaxOf(ns)].text

\* a step changes the text returned for s only by writing to s, and removes
\* no key
WritesAreLocal ==
    /\ \A s \in DOMAIN transcripts : s \in DOMAIN transcripts'
    /\ \A s \in AllSessions :
          DictGet(transcripts', s, "") # DictGet(transcripts, s, "") =>
              /\ Len(writes') = Len(writes) + 1
              /\ writes'[Len(writes')].session = s

\* C17: at any point of any interleaving of connections and POSTs,
\* GET /transcript for a session returns the text of the most recent write to
\* it (a stored final result of a connection of that session, or a submitted
\* text) and "" when it was never written; a write to one session leaves the
\* text of every other session as it was, and no key is ever removed.
C17_LastWriteWins ==
    /\ [](pc = "serve" =>
             \A s \in AllSessions : get_transcript(s).text = LastWrite(writes, s))
    /\ [][/\ response' # response => response'.text = LastWrite(writes, response'.session)
          /\ WritesAreLocal]_vars

\* a POST of "b" to s1, then the final result "a" of a connection of s1
\* written over it, then a GET of s1
C17_Witness ==
    /\ writes = <<[session |-> "s1", text |-> "b"], [session |-> "s1", text |-> "a"]>>
    /\ conns["c1"].session = "s1"
    /\ conns["c1"].sent = <<Message("ready", "s1"), Message("final", "a")>>
    /\ conns["c1"].pc = "loop"
    /\ response = [session |-> "s1", text |-> "a"]

-----------------------------------------------------------------------------
(* The messages of a connection (specification SpecStream). *)

TypesSent(conn) == [n \in 1..Len(conn.sent) |-> conn.sent[n].type]

\* what has been sent on a connection, in every state
MessageOrder(conn) ==
    LET types == TypesSent(conn)
    IN  /\ Cardinality({n \in 1..Len(types) : types[n] = "ready"}) <= 1
        /\ \A n \in 1..Len(types) :
              /\ types[n] = "ready" => (conn.session # "unset" /\ conn.model = "loaded")
              /\ types[n] \in {"partial", "final"} => \E m \in 1..(n - 1) : types[m] = "ready"
              /\ types[n] = "error" => conn.model = "failed"
        /\ conn.model = "failed" => (conn.sent = <<Message("error", "")>> /\ conn.pc = "closed")
        /\ conn.ended = "__close__" => conn.pc = "closed"

\* a step of connection c writes a transcript only as the store of the final
\* result it has just sent, and a closed connection takes no step
StoresOnlyFinals(c) ==
    /\ (conns'[c] # conns[c] /\ (writes' # writes \/ transcripts' # transcripts)) =>
          /\ conns[c].pc = "store"
          /\ conns[c].model = "loaded"
          /\ conns[c].sent[Len(conns[c].sent)] = Message("final", writes'[Len(writes')].text)
          /\ writes' = Append(writes, [session |-> conns[c].session,
                                       text |-> writes'[Len(writes')].text])
    /\ conns[c].pc = "closed" => conns'[c] = conns[c]

\* C18: a connection gets 'ready' at most once, after the init message is
\* received and the recognizer loaded, and before any 'partial' or 'final';
\* when loading fails it gets a single 'error', is closed and stores nothing;
\* only final results are stored, never partial ones; and after "__close__"
\* the connection is closed and handles no further message.
C18_ConnectionProtocol ==
    /\ [](\A c \in Conns : MessageOrder(conns[c]))
    /\ [][\A c \in Conns : StoresOnlyFinals(c)]_vars

\* one connection got 'ready', stored a final result and was ended by
\* "__close__"; the other failed to load the model
C18_Witness ==
    /\ conns["c1"].sent = <<Message("ready", "s1"), Message("final", "a")>>
    /\ conns["c1"].ended = "__close__"
    /\ transcripts = DictSet(EmptyDict, "s1", "a")
    /\ conns["c2"].model = "failed"
    /\ conns["c2"].sent = <<Message("error", "")>>
    /\ conns["c2"].pc = "closed"

-----------------------------------------------------------------------------
(* The temporary files of the Analyze handler (specification Spec). *)

\* C19: when the Analyze handler has finished, normally, after a caught
\* failure or by an exception, no temporary file it created is left (the copy
\* of the upload, the WAV file of convert_to_wav); a refused request has
\* created no temporary file and run no transcription.
C19_TempFilesRemoved ==
    /\ pc \in {"done", "raised"} => files = {}
    /\ pc = "refused" =>
          /\ files = {}
          /\ wav_path = "unset"
          /\ recognized = <<>>
          /\ shown \cap {"could_not_understand_audio", "stt_request_error"} = {}

-----------------------------------------------------------------------------
(* Empty renderings (specification SpecDiff). *)

\* what the loop over the opcodes produced, joined, before the fallback
LoopRenderings ==
    LET parts == HighlightLoop(WordOpcodes, RefWords, CandWords, <<(<<>>), (<<>>)>>)
    IN  <<Join(<<SPACE>>, parts[1]), Join(<<SPACE>>, parts[2])>>

\* the words of a rendering, the spans taken off
WordsOfRendering(html) ==
    Split(SelectSeq(html, LAMBDA c : c \notin {SPAN_OPEN, SPAN_CLOSE}))

\* C20: a rendering returned by highlight_differences is the empty string
\* exactly when its side has no words; the fallback for an empty rendering
\* returns what the opcode loop produced; and the words of a rendering are the
\* words of its own side, never those of the other.
C20_EmptyRendering ==
    pc = "diffed" =>
        /\ (orig_html = <<>>) <=> (RefWords = <<>>)
        /\ (rec_html = <<>>) <=> (CandWords = <<>>)
        /\ <<orig_html, rec_html>> = LoopRenderings
        /\ WordsOfRendering(orig_html) = RefWords
        /\ WordsOfRendering(rec_html) = CandWords

\* " " against "b bb": the reference rendering is empty, the fallback has run,
\* and the candidate rendering holds the two candidate words
C20_Witness ==
    /\ pc = "diffed"
    /\ comp_orig = <<SPACE>>
    /\ comp_rec = <<BEH, SPACE, BEH, BEH>>
    /\ orig_html = <<>>
    /\ rec_html = Marked(<<BEH>>) \o <<SPACE>> \o Marked(<<BEH, BEH>>)

====
